---- MODULE Spec2Model ----
(***************************************************************************)
(* A model of scripts/megameklab-conversion/mtf_converter.py: the MTF line *)
(* scanner MTFParser._parse_lines, the field interpreter _parse_key_value  *)
(* and the assembler _build_unit with its three builders.                  *)
(*                                                                         *)
(* A Python str is a sequence of one-character strings, so that strip,     *)
(* lower, startswith, "in", split and replace are computed as Python       *)
(* computes them.  A Python dict is a sequence of [k, v] entries in        *)
(* insertion order.  An Optional[str] that is None is the value None       *)
(* below; an optional field of an emitted object that is None is left out  *)
(* of the record (as dataclass_to_dict leaves it out of the JSON).         *)
(***************************************************************************)
EXTENDS Integers, Sequences, FiniteSets, TLC

\* Python's None where a str may stand: no str equals it, a str being a
\* sequence of one-character strings.
None == <<"None">>

---------------------------------------------------------------------------
\* Python str operations

UpperChars == <<"A","B","C","D","E","F","G","H","I","J","K","L","M","N","O","P","Q","R","S","T","U","V","W","X","Y","Z">>
LowerChars == <<"a","b","c","d","e","f","g","h","i","j","k","l","m","n","o","p","q","r","s","t","u","v","w","x","y","z">>
Whitespace == {" ", "\t", "\n", "\r"}
Digits == <<"0","1","2","3","4","5","6","7","8","9">>

UpperSet == {UpperChars[i] : i \in 1..26}
LowerSet == {LowerChars[i] : i \in 1..26}
LowerOf == [c \in UpperSet |-> LowerChars[CHOOSE i \in 1..26 : UpperChars[i] = c]]
UpperOf == [c \in LowerSet |-> UpperChars[CHOOSE i \in 1..26 : LowerChars[i] = c]]

LowerChar(c) == IF c \in UpperSet THEN LowerOf[c] ELSE c
UpperChar(c) == IF c \in LowerSet THEN UpperOf[c] ELSE c

\* str.lower(), str.upper()
lower(s) == [i \in 1..Len(s) |-> LowerChar(s[i])]
upper(s) == [i \in 1..Len(s) |-> UpperChar(s[i])]

\* str.startswith(p), str.endswith(p)
startswith(s, p) == Len(s) >= Len(p) /\ SubSeq(s, 1, Len(p)) = p
endswith(s, p) == Len(s) >= Len(p) /\ SubSeq(s, Len(s) - Len(p) + 1, Len(s)) = p

\* p in s
contains(s, p) ==
  \E i \in 1..(Len(s) - Len(p) + 1) : SubSeq(s, i, i + Len(p) - 1) = p

\* s.find(p) + 1 for a p that occurs in s
find(s, p) ==
  CHOOSE i \in 1..(Len(s) - Len(p) + 1) :
    /\ SubSeq(s, i, i + Len(p) - 1) = p
    /\ \A j \in 1..(i - 1) : SubSeq(s, j, j + Len(p) - 1) # p

\* str.strip(): leading and trailing whitespace removed
RECURSIVE lstrip(_)
lstrip(s) == IF s # <<>> /\ Head(s) \in Whitespace THEN lstrip(Tail(s)) ELSE s

RECURSIVE rstrip(_)
rstrip(s) ==
  IF s # <<>> /\ s[Len(s)] \in Whitespace THEN rstrip(SubSeq(s, 1, Len(s) - 1)) ELSE s

strip(s) == rstrip(lstrip(s))

\* str.replace(old, new) for a non-empty old: every non-overlapping
\* occurrence, left to right
RECURSIVE replace(_, _, _)
replace(s, old, new) ==
  IF ~contains(s, old) THEN s
  ELSE LET i == find(s, old)
       IN SubSeq(s, 1, i - 1) \o new \o replace(SubSeq(s, i + Len(old), Len(s)), old, new)

\* str.split(sep, 1) for a sep that occurs in s: the text before the first
\* sep and the text after it
split1(s, sep) ==
  LET i == find(s, sep)
  IN <<SubSeq(s, 1, i - 1), SubSeq(s, i + Len(sep), Len(s))>>

\* sep.join(parts)
RECURSIVE join(_, _)
join(sep, parts) ==
  IF parts = <<>> THEN <<>>
  ELSE IF Len(parts) = 1 THEN parts[1]
  ELSE parts[1] \o sep \o join(sep, Tail(parts))

IsDigit(c) == \E i \in 1..10 : Digits[i] = c
DigitValue(c) == (CHOOSE i \in 1..10 : Digits[i] = c) - 1

RECURSIVE DigitsValue(_)
DigitsValue(s) ==
  IF s = <<>> THEN 0 ELSE 10 * DigitsValue(SubSeq(s, 1, Len(s) - 1)) + DigitValue(s[Len(s)])

\* The digit groups int() accepts: digits, with single underscores between
\* digits only.
IntBody(s) ==
  /\ s # <<>>
  /\ \A i \in 1..Len(s) : IsDigit(s[i]) \/ s[i] = "_"
  /\ IsDigit(s[1]) /\ IsDigit(s[Len(s)])
  /\ \A i \in 1..(Len(s) - 1) : ~(s[i] = "_" /\ s[i + 1] = "_")

\* int(s) of a str: [ok |-> TRUE, value |-> n], or [ok |-> FALSE] where
\* Python raises ValueError
int(s) ==
  LET t == strip(s)
      signed == t # <<>> /\ t[1] \in {"+", "-"}
      body == IF signed THEN Tail(t) ELSE t
      n == DigitsValue(replace(body, <<"_">>, <<>>))
  IN IF IntBody(body)
     THEN [ok |-> TRUE, value |-> IF signed /\ t[1] = "-" THEN 0 - n ELSE n]
     ELSE [ok |-> FALSE]

---------------------------------------------------------------------------
\* Python dict operations: a dict is a sequence of entries [k |-> key,
\* v |-> value] with distinct keys, in insertion order

Keys(d) == {d[i].k : i \in 1..Len(d)}
Has(d, key) == \E i \in 1..Len(d) : d[i].k = key
Get(d, key) == d[CHOOSE i \in 1..Len(d) : d[i].k = key].v
\* d[key] = value: an existing key keeps its place
Set(d, key, value) ==
  IF Has(d, key)
  THEN [i \in 1..Len(d) |-> IF d[i].k = key THEN [k |-> key, v |-> value] ELSE d[i]]
  ELSE Append(d, [k |-> key, v |-> value])
\* d.get(key) of a dict of str values
GetOrNone(d, key) == IF Has(d, key) THEN Get(d, key) ELSE None

---------------------------------------------------------------------------
\* Program constants

\* MTFParser.MECH_LOCATIONS
MECH_LOCATIONS ==
  << <<"H","e","a","d">>, <<"C","e","n","t","e","r"," ","T","o","r","s","o">>, <<"L","e","f","t"," ","T","o","r","s","o">>, <<"R","i","g","h","t"," ","T","o","r","s","o">>,
     <<"L","e","f","t"," ","A","r","m">>, <<"R","i","g","h","t"," ","A","r","m">>, <<"L","e","f","t"," ","L","e","g">>, <<"R","i","g","h","t"," ","L","e","g">> >>

\* fluff_fields of _parse_lines
fluff_fields ==
  << <<"o","v","e","r","v","i","e","w">>, <<"c","a","p","a","b","i","l","i","t","i","e","s">>, <<"d","e","p","l","o","y","m","e","n","t">>, <<"h","i","s","t","o","r","y">>,
     <<"v","a","r","i","a","n","t","s">>, <<"n","o","t","a","b","l","e","_","p","i","l","o","t","s">>, <<"n","o","t","e","s">> >>

InSeq(x, seq) == \E i \in 1..Len(seq) : seq[i] = x

---------------------------------------------------------------------------
\* State

VARIABLES
  vocab,                 \* the lines this input file may hold
  budget,                \* how many more lines the input file may hold
  lines,                 \* the lines of the file the for loop has consumed
  pc,                    \* "scan": in the for loop of _parse_lines; "done": parse_file returned
  data,                  \* the dict data of _parse_lines
  current_section,
  current_section_items,
  items_aliased,         \* data['criticals'][current_section] is the list object current_section_items
  in_weapons_section,
  in_fluff,
  current_fluff_field,
  fluff_buffer,
  result,                \* what parse_file returned
  unknown_equipment,     \* self.unknown_equipment of the parser instance
  parsed                 \* the files the parser instance parsed before: their lines and results

vars ==
  << vocab, budget, lines, pc, data, current_section, current_section_items,
     items_aliased, in_weapons_section, in_fluff, current_fluff_field,
     fluff_buffer, result, unknown_equipment, parsed >>

scanvars ==
  << data, current_section, current_section_items, items_aliased,
     in_weapons_section, in_fluff, current_fluff_field, fluff_buffer >>

\* d[key] = value on the dict data, whose keys are the literals of the code
Put(d, key, value) == [x \in DOMAIN d \cup {key} |-> IF x = key THEN value ELSE d[x]]

---------------------------------------------------------------------------
\* _parse_key_value

\* float(s) for the spellings [sign]digits[.digits], inf, infinity and nan:
\* "finite" with the integer part, "inf", "nan", or "error" (ValueError).
\* Exponent spellings are not among the inputs drawn.
float(s) ==
  LET t == strip(s)
      signed == t # <<>> /\ t[1] \in {"+", "-"}
      neg == signed /\ t[1] = "-"
      body == IF signed THEN Tail(t) ELSE t
      lb == lower(body)
      whole == IF contains(body, <<".">>) THEN split1(body, <<".">>)[1] ELSE body
      frac == IF contains(body, <<".">>) THEN split1(body, <<".">>)[2] ELSE <<>>
      wholeOk == whole = <<>> \/ IntBody(whole)
      fracOk == frac = <<>> \/ IntBody(frac)
  IN IF lb \in {<<"i","n","f">>, <<"i","n","f","i","n","i","t","y">>} THEN [kind |-> "inf"]
     ELSE IF lb = <<"n","a","n">> THEN [kind |-> "nan"]
     ELSE IF wholeOk /\ fracOk /\ (whole # <<>> \/ frac # <<>>)
     THEN [kind |-> "finite",
           trunc |-> IF neg THEN 0 - DigitsValue(replace(whole, <<"_">>, <<>>))
                     ELSE DigitsValue(replace(whole, <<"_">>, <<>>))]
     ELSE [kind |-> "error"]

\* The keys that store their value as it is
PlainKeys ==
  { <<"c","h","a","s","s","i","s">>, <<"m","o","d","e","l">>, <<"c","o","n","f","i","g">>, <<"t","e","c","h","b","a","s","e">>, <<"s","o","u","r","c","e">>, <<"r","u","l","e","s","_","l","e","v","e","l">>, <<"r","o","l","e">>,
    <<"s","t","r","u","c","t","u","r","e">>, <<"m","y","o","m","e","r">>, <<"m","a","n","u","f","a","c","t","u","r","e","r">> }

\* The key of data a plain key stores under
PlainField(key) ==
  CASE key = <<"c","h","a","s","s","i","s">> -> "chassis"
    [] key = <<"m","o","d","e","l">> -> "model"
    [] key = <<"c","o","n","f","i","g">> -> "config"
    [] key = <<"t","e","c","h","b","a","s","e">> -> "techbase"
    [] key = <<"s","o","u","r","c","e">> -> "source"
    [] key = <<"r","u","l","e","s","_","l","e","v","e","l">> -> "rules_level"
    [] key = <<"r","o","l","e">> -> "role"
    [] key = <<"s","t","r","u","c","t","u","r","e">> -> "structure"
    [] key = <<"m","y","o","m","e","r">> -> "myomer"
    [] key = <<"m","a","n","u","f","a","c","t","u","r","e","r">> -> "manufacturer"

\* try: data[field] = int(value) / except ValueError: data[field] = 0
IntOrZero(d, field, value) ==
  Put(d, field, IF int(value).ok THEN int(value).value ELSE 0)

\* _parse_key_value(key, value, data): [raised |-> FALSE, data |-> the dict
\* after the call], or [raised |-> TRUE] when an exception leaves the call
\* (int(float(value)) raises OverflowError, which is no ValueError, for an
\* infinity).  The keys era, engine and heat_sinks write only data['era'],
\* data['engine'] and data['heat_sinks'], which no modelled output reads:
\* they are taken here as the keys that match no branch.
_parse_key_value(key, value, d) ==
  IF key \in PlainKeys THEN
    [raised |-> FALSE, data |-> Put(d, PlainField(key), value)]
  ELSE IF key = <<"m","u","l","_","i","d">> THEN
    [raised |-> FALSE,
     data |-> IF int(value).ok THEN Put(d, "mul_id", int(value).value) ELSE d]
  ELSE IF key = <<"m","a","s","s">> THEN
    IF float(value).kind = "inf" THEN [raised |-> TRUE]
    ELSE [raised |-> FALSE,
          data |-> Put(d, "mass", IF float(value).kind = "finite"
                                  THEN float(value).trunc ELSE 0)]
  ELSE IF key = <<"w","a","l","k","_","m","p">> THEN
    [raised |-> FALSE, data |-> IntOrZero(d, "walk_mp", value)]
  ELSE IF key = <<"j","u","m","p","_","m","p">> THEN
    [raised |-> FALSE, data |-> IntOrZero(d, "jump_mp", value)]
  ELSE IF key = <<"a","r","m","o","r">> THEN
    [raised |-> FALSE, data |-> Put(d, "armor_type", value)]
  ELSE IF endswith(key, <<"_","a","r","m","o","r">>) \/ endswith(key, <<"a","r","m","o","r">>) THEN
    LET loc_key == upper(strip(replace(replace(key, <<"_","a","r","m","o","r">>, <<>>), <<"a","r","m","o","r">>, <<>>)))
    IN [raised |-> FALSE,
        data |-> IF int(value).ok
                 THEN [d EXCEPT !.armor_allocation = Set(@, loc_key, int(value).value)]
                 ELSE d]
  ELSE IF key = <<"q","u","i","r","k">> THEN
    [raised |-> FALSE, data |-> [d EXCEPT !.quirks = Append(@, value)]]
  ELSE IF key = <<"p","r","i","m","a","r","y","f","a","c","t","o","r","y">> THEN
    [raised |-> FALSE, data |-> Put(d, "primary_factory", value)]
  ELSE IF key = <<"s","y","s","t","e","m","m","a","n","u","f","a","c","t","u","r","e","r">> THEN
    [raised |-> FALSE,
     data |-> IF contains(value, <<":">>)
              THEN [d EXCEPT !.system_manufacturers =
                      Set(@, strip(split1(value, <<":">>)[1]), strip(split1(value, <<":">>)[2]))]
              ELSE d]
  ELSE [raised |-> FALSE, data |-> d]

---------------------------------------------------------------------------
\* External collaborators (module enum_mappings)

\* map_mech_location: the canonical name of a location, as the keys of
\* slot_counts spell it: upper case, words joined by underscores
map_mech_location(location) == upper(replace(strip(location), <<" ">>, <<"_">>))

\* normalize_equipment_id: the collaborator's value at a name, left
\* uninterpreted
normalize_equipment_id(name) == [normalize_equipment_id |-> name]

---------------------------------------------------------------------------
\* _build_armor_allocation

loc_map ==
  << [k |-> <<"L","A">>, v |-> <<"L","E","F","T","_","A","R","M">>],
     [k |-> <<"R","A">>, v |-> <<"R","I","G","H","T","_","A","R","M">>],
     [k |-> <<"L","T">>, v |-> <<"L","E","F","T","_","T","O","R","S","O">>],
     [k |-> <<"R","T">>, v |-> <<"R","I","G","H","T","_","T","O","R","S","O">>],
     [k |-> <<"C","T">>, v |-> <<"C","E","N","T","E","R","_","T","O","R","S","O">>],
     [k |-> <<"H","D">>, v |-> <<"H","E","A","D">>],
     [k |-> <<"L","L">>, v |-> <<"L","E","F","T","_","L","E","G">>],
     [k |-> <<"R","L">>, v |-> <<"R","I","G","H","T","_","L","E","G">>],
     [k |-> <<"R","T","L">>, v |-> <<"L","E","F","T","_","T","O","R","S","O","_","R","E","A","R">>],
     [k |-> <<"R","T","R">>, v |-> <<"R","I","G","H","T","_","T","O","R","S","O","_","R","E","A","R">>],
     [k |-> <<"R","T","C">>, v |-> <<"C","E","N","T","E","R","_","T","O","R","S","O","_","R","E","A","R">>] >>

\* loc_map.get(key, key)
mapped_loc(key) == IF Has(loc_map, key) THEN Get(loc_map, key) ELSE key

\* An allocation value: the int n is [int |-> n], the dict of a torso is
\* [front |-> f, rear |-> r]
IsInt(value) == DOMAIN value = {"int"}

\* IsFront without the test for REAR: every entry is taken as a front entry
IsFront_Always(key) == TRUE

\* 'REAR' not in mapped_loc
IsFront(key) == ~contains(mapped_loc(key), <<"R","E","A","R">>)

\* front_loc without the removal of the rear marker
front_loc_KeepsMarker(key) == mapped_loc(key)

\* mapped_loc.replace('_REAR', '')
front_loc(key) == replace(mapped_loc(key), <<"_","R","E","A","R">>, <<>>)

\* First pass: the entries from place i on, onto allocation
RECURSIVE FirstPass(_, _, _)
FirstPass(raw_allocation, i, allocation) ==
  IF i > Len(raw_allocation) THEN allocation
  ELSE FirstPass(raw_allocation, i + 1,
         IF IsFront(raw_allocation[i].k)
         THEN Set(allocation, mapped_loc(raw_allocation[i].k), [int |-> raw_allocation[i].v])
         ELSE allocation)

\* SecondPass without the isinstance test: a further rear entry replaces
\* the rear value of a composite
RECURSIVE SecondPass_Overwrites(_, _, _)
SecondPass_Overwrites(raw_allocation, i, allocation) ==
  IF i > Len(raw_allocation) THEN allocation
  ELSE SecondPass_Overwrites(raw_allocation, i + 1,
         IF /\ ~IsFront(raw_allocation[i].k)
            /\ Has(allocation, front_loc(raw_allocation[i].k))
         THEN Set(allocation, front_loc(raw_allocation[i].k),
                  [front |-> IF IsInt(Get(allocation, front_loc(raw_allocation[i].k)))
                             THEN Get(allocation, front_loc(raw_allocation[i].k)).int
                             ELSE Get(allocation, front_loc(raw_allocation[i].k)).front,
                   rear |-> raw_allocation[i].v])
         ELSE allocation)

\* Second pass: the entries from place i on, onto allocation
RECURSIVE SecondPass(_, _, _)
SecondPass(raw_allocation, i, allocation) ==
  IF i > Len(raw_allocation) THEN allocation
  ELSE SecondPass(raw_allocation, i + 1,
         IF /\ ~IsFront(raw_allocation[i].k)
            /\ Has(allocation, front_loc(raw_allocation[i].k))
            /\ IsInt(Get(allocation, front_loc(raw_allocation[i].k)))
         THEN Set(allocation, front_loc(raw_allocation[i].k),
                  [front |-> Get(allocation, front_loc(raw_allocation[i].k)).int,
                   rear |-> raw_allocation[i].v])
         ELSE allocation)

_build_armor_allocation(raw_allocation) ==
  SecondPass(raw_allocation, 1, FirstPass(raw_allocation, 1, <<>>))

---------------------------------------------------------------------------
\* _build_equipment_list

\* '(R)' in name or '(Rear)' in name.lower()
is_rear(name) == contains(name, <<"(","R",")">>) \/ contains(lower(name), <<"(","R","e","a","r",")">>)

\* name.replace('(R)', '').replace('(r)', '').strip()
clean_name(name) == strip(replace(replace(name, <<"(","R",")">>, <<>>), <<"(","r",")">>, <<>>))

\* The SerializedEquipment of one weapon; isRearMounted is left out when None
Equipment(weapon) ==
  IF is_rear(weapon.name)
  THEN [id |-> normalize_equipment_id(clean_name(weapon.name)),
        location |-> map_mech_location(weapon.location),
        isRearMounted |-> TRUE]
  ELSE [id |-> normalize_equipment_id(clean_name(weapon.name)),
        location |-> map_mech_location(weapon.location)]

\* _build_equipment_list that emits the entries last to first
RECURSIVE _build_equipment_list_Reversed(_)
_build_equipment_list_Reversed(weapons) ==
  IF weapons = <<>> THEN <<>>
  ELSE <<Equipment(weapons[Len(weapons)])>>
       \o _build_equipment_list_Reversed(SubSeq(weapons, 1, Len(weapons) - 1))

RECURSIVE _build_equipment_list(_)
_build_equipment_list(weapons) ==
  IF weapons = <<>> THEN <<>>
  ELSE Append(_build_equipment_list(SubSeq(weapons, 1, Len(weapons) - 1)),
              Equipment(weapons[Len(weapons)]))

---------------------------------------------------------------------------
\* _build_critical_slots

slot_counts ==
  << [k |-> <<"H","E","A","D">>, v |-> 6],
     [k |-> <<"C","E","N","T","E","R","_","T","O","R","S","O">>, v |-> 12],
     [k |-> <<"L","E","F","T","_","T","O","R","S","O">>, v |-> 12],
     [k |-> <<"R","I","G","H","T","_","T","O","R","S","O">>, v |-> 12],
     [k |-> <<"L","E","F","T","_","A","R","M">>, v |-> 12],
     [k |-> <<"R","I","G","H","T","_","A","R","M">>, v |-> 12],
     [k |-> <<"L","E","F","T","_","L","E","G">>, v |-> 6],
     [k |-> <<"R","I","G","H","T","_","L","E","G">>, v |-> 6],
     [k |-> <<"F","R","O","N","T","_","L","E","F","T","_","L","E","G">>, v |-> 6],
     [k |-> <<"F","R","O","N","T","_","R","I","G","H","T","_","L","E","G">>, v |-> 6],
     [k |-> <<"R","E","A","R","_","L","E","F","T","_","L","E","G">>, v |-> 6],
     [k |-> <<"R","E","A","R","_","R","I","G","H","T","_","L","E","G">>, v |-> 6] >>

\* slot_counts.get(mapped_location, 12)
max_slots(mapped_location) ==
  IF Has(slot_counts, mapped_location) THEN Get(slot_counts, mapped_location) ELSE 12

\* ConvertItems with the empty-slot marker kept as content
ConvertItems_KeepMarker(items) == items

\* The loop over items: None for '-Empty-' and for an empty item
RECURSIVE ConvertItems(_)
ConvertItems(items) ==
  IF items = <<>> THEN <<>>
  ELSE Append(ConvertItems(SubSeq(items, 1, Len(items) - 1)),
              IF items[Len(items)] = <<"-","E","m","p","t","y","-">> \/ items[Len(items)] = <<>>
              THEN None ELSE items[Len(items)])

\* NormalizeSlots without the trim of the excess
NormalizeSlots_NoTrim(slot_list, max) ==
  IF Len(slot_list) < max
  THEN slot_list \o [i \in 1..(max - Len(slot_list)) |-> None]
  ELSE slot_list

\* Normalize to correct slot count: trim the excess, or pad with None
NormalizeSlots(slot_list, max) ==
  IF Len(slot_list) > max THEN SubSeq(slot_list, 1, max)
  ELSE IF Len(slot_list) < max
  THEN slot_list \o [i \in 1..(max - Len(slot_list)) |-> None]
  ELSE slot_list

\* The entries of criticals from place i on, onto slots
RECURSIVE BuildSlotsFrom(_, _, _)
BuildSlotsFrom(criticals, i, slots) ==
  IF i > Len(criticals) THEN slots
  ELSE BuildSlotsFrom(criticals, i + 1,
         Set(slots, map_mech_location(criticals[i].k),
             NormalizeSlots(ConvertItems(criticals[i].v),
                            max_slots(map_mech_location(criticals[i].k)))))

_build_critical_slots(criticals) == BuildSlotsFrom(criticals, 1, <<>>)

---------------------------------------------------------------------------
\* _build_unit

\* The record with field name when present, the empty record otherwise
Opt(name, present, value) == IF present THEN name :> value ELSE <<>>

\* d.get(key, default) on the dict data
GetData(d, key, default) == IF key \in DOMAIN d THEN d[key] ELSE default

\* The SerializedFluff built when data['fluff'] is not empty
BuildFluff(d) ==
  [overview |-> GetOrNone(d.fluff, <<"o","v","e","r","v","i","e","w">>),
   capabilities |-> GetOrNone(d.fluff, <<"c","a","p","a","b","i","l","i","t","i","e","s">>),
   history |-> GetOrNone(d.fluff, <<"h","i","s","t","o","r","y">>),
   deployment |-> GetOrNone(d.fluff, <<"d","e","p","l","o","y","m","e","n","t">>),
   manufacturer |-> GetData(d, "manufacturer", None),
   primaryFactory |-> GetData(d, "primary_factory", None)]
  @@ Opt("systemManufacturer", d.system_manufacturers # <<>>, d.system_manufacturers)

\* The SerializedUnit _build_unit returns, its fields that are None left
\* out.  The fields that only carry a collaborator's label (id, unitType,
\* configuration, techBase, rulesLevel, era, year, engine, gyro, cockpit,
\* structure, heatSinks, armor.type) are not modelled.
SerializedUnit(d) ==
  [returned |-> "unit",
   chassis |-> GetData(d, "chassis", <<"U","n","k","n","o","w","n">>),
   model |-> GetData(d, "model", <<"U","n","k","n","o","w","n">>),
   tonnage |-> GetData(d, "mass", 0),
   armor |-> [allocation |-> _build_armor_allocation(d.armor_allocation)],
   movement |-> [walk |-> GetData(d, "walk_mp", 0), jump |-> GetData(d, "jump_mp", 0)],
   equipment |-> _build_equipment_list(d.weapons),
   criticalSlots |-> _build_critical_slots(d.criticals)]
  @@ Opt("quirks", d.quirks # <<>>, d.quirks)
  @@ Opt("fluff", d.fluff # <<>>, BuildFluff(d))
  @@ Opt("mulId", "mul_id" \in DOMAIN d, GetData(d, "mul_id", 0))
  @@ Opt("role", "role" \in DOMAIN d, GetData(d, "role", None))
  @@ Opt("source", "source" \in DOMAIN d, GetData(d, "source", None))

\* _build_unit without the return of None for a missing chassis
_build_unit_NoChassisCheck(d) == SerializedUnit(d)

\* What _build_unit returns: [returned |-> "None"], or the unit
_build_unit(d) ==
  IF GetData(d, "chassis", <<"U","n","k","n","o","w","n">>) = <<"U","n","k","n","o","w","n">> THEN [returned |-> "None"]
  ELSE SerializedUnit(d)

---------------------------------------------------------------------------
\* _parse_lines: the body of the for loop, on the local variables

Locals ==
  [data |-> data,
   current_section |-> current_section,
   current_section_items |-> current_section_items,
   items_aliased |-> items_aliased,
   in_weapons_section |-> in_weapons_section,
   in_fluff |-> in_fluff,
   current_fluff_field |-> current_fluff_field,
   fluff_buffer |-> fluff_buffer]

\* not line_content or line_content.startswith('#')
IsBlankOrComment(line_content) ==
  line_content = <<>> \/ startswith(line_content, <<"#">>)

\* The places in fluff_fields of the fields whose header line_content is
FluffMatches(line_content) ==
  LET lowered == lower(line_content)
  IN {i \in 1..Len(fluff_fields) : startswith(lowered, fluff_fields[i] \o <<":">>)}

IsFluffHeader(line_content) == FluffMatches(line_content) # {}

\* The field the loop over fluff_fields breaks at
FluffField(line_content) ==
  fluff_fields[CHOOSE i \in FluffMatches(line_content) :
                 \A j \in FluffMatches(line_content) : i <= j]

\* line_content.endswith(':') and not ':' in line_content[:-1]
IsSectionHeader(line_content) ==
  /\ endswith(line_content, <<":">>)
  /\ ~contains(SubSeq(line_content, 1, Len(line_content) - 1), <<":">>)

\* section_name in self.MECH_LOCATIONS or section_name in ['Head', 'Center Torso']
IsMechLocation(section_name) ==
  InSeq(section_name, MECH_LOCATIONS) \/ section_name \in {<<"H","e","a","d">>, <<"C","e","n","t","e","r"," ","T","o","r","s","o">>}

\* line_content.lower().startswith('weapons:')
IsWeaponsHeader(line_content) == startswith(lower(line_content), <<"w","e","a","p","o","n","s",":">>)

\* current_section and current_section_items
SectionToSave(s) ==
  /\ s.current_section # None
  /\ s.current_section # <<>>
  /\ s.current_section_items # <<>>

\* SaveSection that also stores a section without content lines
SaveSection_Always(s) ==
  IF s.current_section # None /\ s.current_section # <<>>
  THEN [s.data EXCEPT !.criticals = Set(@, s.current_section, s.current_section_items)]
  ELSE s.data

\* if current_section and current_section_items:
\*     data['criticals'][current_section] = current_section_items
SaveSection(s) ==
  IF SectionToSave(s)
  THEN [s.data EXCEPT !.criticals = Set(@, s.current_section, s.current_section_items)]
  ELSE s.data

\* data['fluff'][current_fluff_field] = '\n'.join(fluff_buffer).strip()
SaveFluff(s) ==
  IF s.in_fluff /\ s.fluff_buffer # <<>>
  THEN [s.data EXCEPT !.fluff =
          Set(@, s.current_fluff_field, strip(join(<<"\n">>, s.fluff_buffer)))]
  ELSE s.data

\* BlankLine that also leaves the open section and weapons mode
BlankLine_ClosesSection(s) ==
  IF s.in_fluff /\ s.fluff_buffer # <<>>
  THEN [s EXCEPT !.data = SaveFluff(s),
                 !.fluff_buffer = <<>>,
                 !.in_fluff = FALSE,
                 !.current_fluff_field = None]
  ELSE [s EXCEPT !.current_section = None,
                 !.current_section_items = <<>>,
                 !.in_weapons_section = FALSE]

\* BlankLine that leaves an open fluff field open
BlankLine_KeepsOpen(s) == s

\* Skip empty lines and comments: an open fluff field is saved and closed
BlankLine(s) ==
  IF s.in_fluff /\ s.fluff_buffer # <<>>
  THEN [s EXCEPT !.data = SaveFluff(s),
                 !.fluff_buffer = <<>>,
                 !.in_fluff = FALSE,
                 !.current_fluff_field = None]
  ELSE s

\* FluffHeaderLine that leaves the open section and weapons mode
FluffHeaderLine_LeavesSection(s, line_content) ==
  LET field == FluffField(line_content)
  IN [s EXCEPT !.data = SaveFluff(s),
               !.current_fluff_field = field,
               !.fluff_buffer =
                  << strip(SubSeq(line_content, Len(field) + 2, Len(line_content))) >>,
               !.in_fluff = TRUE,
               !.current_section = None,
               !.current_section_items = <<>>,
               !.in_weapons_section = FALSE]

\* Check for fluff headers
FluffHeaderLine(s, line_content) ==
  LET field == FluffField(line_content)
  IN [s EXCEPT !.data = SaveFluff(s),
               !.current_fluff_field = field,
               !.fluff_buffer =
                  << strip(SubSeq(line_content, Len(field) + 2, Len(line_content))) >>,
               !.in_fluff = TRUE]

\* FluffBodyLine that still looks for a section header in the body
FluffBodyLine_SeesHeaders(s, line_content) ==
  IF IsSectionHeader(line_content)
  THEN [s EXCEPT !.current_section = SubSeq(line_content, 1, Len(line_content) - 1),
                 !.current_section_items = <<>>]
  ELSE [s EXCEPT !.fluff_buffer = Append(@, line_content)]

\* if in_fluff: fluff_buffer.append(line_content)
FluffBodyLine(s, line_content) ==
  [s EXCEPT !.fluff_buffer = Append(@, line_content)]

\* SectionHeaderLine in which a header that names no location closes the
\* open section
SectionHeaderLine_ClosesSection(s, line_content) ==
  LET section_name == SubSeq(line_content, 1, Len(line_content) - 1)
  IN [s EXCEPT !.data = SaveSection(s),
               !.current_section = IF IsMechLocation(section_name) THEN section_name ELSE None,
               !.current_section_items = <<>>,
               !.items_aliased = FALSE,
               !.in_weapons_section = FALSE]

\* Check for section headers (e.g., "Left Arm:")
SectionHeaderLine(s, line_content) ==
  LET section_name == SubSeq(line_content, 1, Len(line_content) - 1)
  IN IF IsMechLocation(section_name)
     THEN [s EXCEPT !.data = SaveSection(s),
                    !.current_section = section_name,
                    !.current_section_items = <<>>,
                    !.items_aliased = FALSE,
                    !.in_weapons_section = FALSE]
     ELSE [s EXCEPT !.data = SaveSection(s),
                    !.items_aliased = @ \/ SectionToSave(s)]

\* WeaponsHeaderLine that leaves the open section open
WeaponsHeaderLine_KeepsSection(s) ==
  [s EXCEPT !.in_weapons_section = TRUE,
            !.data = SaveSection(s)]

\* Check for weapons section
WeaponsHeaderLine(s) ==
  [s EXCEPT !.in_weapons_section = TRUE,
            !.data = SaveSection(s),
            !.current_section = None,
            !.current_section_items = <<>>,
            !.items_aliased = FALSE]

\* Parse weapon line: "Medium Laser, Left Arm"
WeaponLine(s, line_content) ==
  IF contains(line_content, <<",">>)
  THEN LET parts == split1(line_content, <<",">>)
       IN [s EXCEPT !.data.weapons =
             Append(@, [name |-> strip(parts[1]), location |-> strip(parts[2])])]
  ELSE s

\* key.strip().lower().replace(' ', '_') of a key:value line
KeyOf(line_content) == replace(lower(strip(split1(line_content, <<":">>)[1])), <<" ">>, <<"_">>)
\* value.strip() of a key:value line
ValueOf(line_content) == strip(split1(line_content, <<":">>)[2])

\* Parse critical slot items: the list object appended to is also the one
\* stored in data['criticals'] when the section was saved without being left
ContentLine(s, line_content) ==
  IF s.current_section # None /\ s.current_section # <<>>
  THEN [s EXCEPT !.current_section_items = Append(@, line_content),
                 !.data.criticals =
                    IF s.items_aliased
                    THEN Set(@, s.current_section, Append(s.current_section_items, line_content))
                    ELSE @]
  ELSE s

\* One turn of the for loop: [raised |-> FALSE, locals |-> the local
\* variables after it], or [raised |-> TRUE] when _parse_key_value raises
scan_line(s, line) ==
  LET line_content == strip(line)
  IN IF IsBlankOrComment(line_content) THEN
       [raised |-> FALSE, locals |-> BlankLine(s)]
     ELSE IF IsFluffHeader(line_content) THEN
       [raised |-> FALSE, locals |-> FluffHeaderLine(s, line_content)]
     ELSE IF s.in_fluff THEN
       [raised |-> FALSE, locals |-> FluffBodyLine(s, line_content)]
     ELSE IF IsSectionHeader(line_content) THEN
       [raised |-> FALSE, locals |-> SectionHeaderLine(s, line_content)]
     ELSE IF IsWeaponsHeader(line_content) THEN
       [raised |-> FALSE, locals |-> WeaponsHeaderLine(s)]
     ELSE IF s.in_weapons_section THEN
       [raised |-> FALSE, locals |-> WeaponLine(s, line_content)]
     ELSE IF contains(line_content, <<":">>) THEN
       LET r == _parse_key_value(KeyOf(line_content), ValueOf(line_content), s.data)
       IN IF r.raised THEN [raised |-> TRUE]
          ELSE [raised |-> FALSE, locals |-> [s EXCEPT !.data = r.data]]
     ELSE
       [raised |-> FALSE, locals |-> ContentLine(s, line_content)]

---------------------------------------------------------------------------
\* Actions

\* parse_file reads one more line of the file: one turn of the for loop.
\* An exception leaves _parse_lines and parse_file returns None.
ReadLine(line) ==
  /\ pc = "scan"
  /\ budget > 0
  /\ budget' = budget - 1
  /\ lines' = Append(lines, line)
  /\ LET r == scan_line(Locals, line)
     IN IF r.raised
        THEN /\ pc' = "done"
             /\ result' = [returned |-> "None"]
             /\ UNCHANGED scanvars
        ELSE /\ data' = r.locals.data
             /\ current_section' = r.locals.current_section
             /\ current_section_items' = r.locals.current_section_items
             /\ items_aliased' = r.locals.items_aliased
             /\ in_weapons_section' = r.locals.in_weapons_section
             /\ in_fluff' = r.locals.in_fluff
             /\ current_fluff_field' = r.locals.current_fluff_field
             /\ fluff_buffer' = r.locals.fluff_buffer
             /\ UNCHANGED <<pc, result>>
  /\ UNCHANGED << vocab, unknown_equipment, parsed >>

\* FinalData without the saves after the loop
FinalData_NoFlush(s) == s.data

\* The data dict when the loop has ended: the last section and the last
\* fluff field saved
FinalData(s) == SaveFluff([s EXCEPT !.data = SaveSection(s)])

\* The file has no more lines: the last section and fluff are saved and the
\* unit is built
EndOfInput ==
  /\ pc = "scan"
  /\ data' = FinalData(Locals)
  /\ items_aliased' = (items_aliased \/ SectionToSave(Locals))
  /\ result' = _build_unit(FinalData(Locals))
  /\ pc' = "done"
  /\ UNCHANGED << vocab, budget, lines, current_section, current_section_items,
                  in_weapons_section, in_fluff, current_fluff_field, fluff_buffer,
                  unknown_equipment, parsed >>

Next == (\E line \in vocab : ReadLine(line)) \/ EndOfInput

---------------------------------------------------------------------------
\* Inputs and specifications

\* The local variables of _parse_lines before the first line
Locals0 ==
  [data |-> [quirks |-> <<>>, weapons |-> <<>>, criticals |-> <<>>,
             armor_allocation |-> <<>>, fluff |-> <<>>, system_manufacturers |-> <<>>],
   current_section |-> None,
   current_section_items |-> <<>>,
   items_aliased |-> FALSE,
   in_weapons_section |-> FALSE,
   in_fluff |-> FALSE,
   current_fluff_field |-> None,
   fluff_buffer |-> <<>>]

\* The local variables after the for loop has consumed the lines of prefix
\* (lines on which nothing raises)
RECURSIVE ScanAll(_)
ScanAll(prefix) ==
  IF prefix = <<>> THEN Locals0
  ELSE scan_line(ScanAll(SubSeq(prefix, 1, Len(prefix) - 1)), prefix[Len(prefix)]).locals

\* parse_file has consumed the lines of prefix; up to n lines drawn from V
\* follow
InitAfter(prefix, V, n) ==
  /\ vocab = V
  /\ budget = n
  /\ lines = prefix
  /\ pc = "scan"
  /\ data = ScanAll(prefix).data
  /\ current_section = ScanAll(prefix).current_section
  /\ current_section_items = ScanAll(prefix).current_section_items
  /\ items_aliased = ScanAll(prefix).items_aliased
  /\ in_weapons_section = ScanAll(prefix).in_weapons_section
  /\ in_fluff = ScanAll(prefix).in_fluff
  /\ current_fluff_field = ScanAll(prefix).current_fluff_field
  /\ fluff_buffer = ScanAll(prefix).fluff_buffer
  /\ result = [returned |-> "pending"]
  /\ unknown_equipment = {}
  /\ parsed = <<>>

\* How many lines an input file holds at most
MaxLines == 5

\* How many content lines follow the header of a location section at most
MaxItems == 13

\* How many files one parser instance parses at most
MaxFiles == 3

\* How many lines the files of one parser instance hold together at most
MaxBatchLines == 3

\* StartFile that keeps the record of the file before
StartFile_KeepsData ==
  /\ pc = "done"
  /\ Len(parsed) + 1 < MaxFiles
  /\ parsed' = Append(parsed, [lines |-> lines, result |-> result])
  /\ lines' = <<>>
  /\ pc' = "scan"
  /\ result' = [returned |-> "pending"]
  /\ current_section' = Locals0.current_section
  /\ current_section_items' = Locals0.current_section_items
  /\ items_aliased' = Locals0.items_aliased
  /\ in_weapons_section' = Locals0.in_weapons_section
  /\ in_fluff' = Locals0.in_fluff
  /\ current_fluff_field' = Locals0.current_fluff_field
  /\ fluff_buffer' = Locals0.fluff_buffer
  /\ UNCHANGED << data, vocab, budget, unknown_equipment >>

\* convert_directory goes to the next file with the same parser instance:
\* parse_file calls _parse_lines, which makes a new record and new locals
StartFile ==
  /\ pc = "done"
  /\ Len(parsed) + 1 < MaxFiles
  /\ parsed' = Append(parsed, [lines |-> lines, result |-> result])
  /\ lines' = <<>>
  /\ pc' = "scan"
  /\ result' = [returned |-> "pending"]
  /\ data' = Locals0.data
  /\ current_section' = Locals0.current_section
  /\ current_section_items' = Locals0.current_section_items
  /\ items_aliased' = Locals0.items_aliased
  /\ in_weapons_section' = Locals0.in_weapons_section
  /\ in_fluff' = Locals0.in_fluff
  /\ current_fluff_field' = Locals0.current_fluff_field
  /\ fluff_buffer' = Locals0.fluff_buffer
  /\ UNCHANGED << vocab, budget, unknown_equipment >>

\* The batch converter: the files of a directory, one parser instance
NextBatch == (\E line \in vocab : ReadLine(line)) \/ EndOfInput \/ StartFile

\* The locals after a new parser has scanned the lines of a file, or that
\* a line raised
RECURSIVE ScanFile(_)
ScanFile(ls) ==
  IF ls = <<>> THEN [raised |-> FALSE, locals |-> Locals0]
  ELSE LET r == ScanFile(SubSeq(ls, 1, Len(ls) - 1))
       IN IF r.raised THEN r ELSE scan_line(r.locals, ls[Len(ls)])

\* What parse_file of a new parser returns for a file of these lines
ParseFresh(ls) ==
  IF ScanFile(ls).raised THEN [returned |-> "None"]
  ELSE _build_unit(FinalData(ScanFile(ls).locals))

\* Spec: files of header fields, a narrative field, a weapons header and a
\* location header
MixedLines ==
  { <<"c","h","a","s","s","i","s",":","A","t","l","a","s">>, <<"m","a","n","u","f","a","c","t","u","r","e","r",":","D","e","f","i","a","n","c","e">>, <<"O","v","e","r","v","i","e","w",":","A"," ","f","a","s","t"," ","m","e","c","h">>, <<"\n">>,
    <<"W","e","a","p","o","n","s",":","1">>, <<"H","e","a","d",":">>, <<"M","e","d","i","u","m"," ","L","a","s","e","r",","," ","L","e","f","t"," ","A","r","m">> }

Init == InitAfter(<<>>, MixedLines, MaxLines)

Spec == Init /\ [][Next]_vars

\* SpecSlots: a chassis line, the header of one location, and content lines
SlotItems == { <<"-","E","m","p","t","y","-">>, <<"M","e","d","i","u","m"," ","L","a","s","e","r">> }

InitSlots ==
  \E loc \in {MECH_LOCATIONS[i] : i \in 1..Len(MECH_LOCATIONS)} :
    InitAfter(<< <<"c","h","a","s","s","i","s",":","A","t","l","a","s">>, loc \o <<":">> >>, SlotItems, MaxItems)

SpecSlots == InitSlots /\ [][Next]_vars

\* SpecArmor: a chassis line and per-location armor lines, the torso codes
\* of loc_map, codes that are already location names, and a code REAR
ArmorLines ==
  { <<"L","T"," ","a","r","m","o","r",":","1","0">>, <<"R","T","L"," ","a","r","m","o","r",":","5">>, <<"C","T"," ","a","r","m","o","r",":","8">>, <<"R","T","C"," ","a","r","m","o","r",":","4">>,
    <<"L","E","F","T","_","T","O","R","S","O"," ","a","r","m","o","r",":","7">>, <<"L","E","F","T","_","T","O","R","S","O","_","R","E","A","R"," ","a","r","m","o","r",":","3">>, <<"R","E","A","R"," ","a","r","m","o","r",":","9">> }

InitArmor == InitAfter(<< <<"c","h","a","s","s","i","s",":","A","t","l","a","s">> >>, ArmorLines, MaxLines)

SpecArmor == InitArmor /\ [][Next]_vars

\* SpecFluff: narrative-field headers, text lines, blank and comment
\* lines, and a location header
FluffLines ==
  { <<"O","v","e","r","v","i","e","w",":">>, <<"F","i","r","s","t"," ","l","i","n","e">>, <<"S","e","c","o","n","d"," ","l","i","n","e">>, <<"\n">>, <<"#"," ","n","o","t","e">>, <<"H","i","s","t","o","r","y",":","O","l","d">>, <<"H","e","a","d",":">> }

InitFluff == InitAfter(<<>>, FluffLines, MaxLines)

SpecFluff == InitFluff /\ [][Next]_vars

\* SpecWeapons: a chassis line, weapons headers with and without a count,
\* weapon lines with and without rear markers, and a location header
WeaponLines ==
  { <<"W","e","a","p","o","n","s",":">>, <<"W","e","a","p","o","n","s",":","2">>, <<"M","e","d","i","u","m"," ","L","a","s","e","r","(","R",")",","," ","L","e","f","t"," ","A","r","m">>,
    <<"L","R","M"," ","2","0"," ","(","R","e","a","r",")",","," ","C","e","n","t","e","r"," ","T","o","r","s","o">>, <<"A","C","/","2","0",","," ","R","i","g","h","t"," ","A","r","m">>, <<"H","e","a","d",":">> }

InitWeapons == InitAfter(<< <<"c","h","a","s","s","i","s",":","A","t","l","a","s">> >>, WeaponLines, MaxLines)

SpecWeapons == InitWeapons /\ [][Next]_vars

\* SpecNumbers: a chassis line and lines of the integer fields, with
\* values that are integers, decimals, text, nan and inf
NumberLines ==
  { <<"m","a","s","s",":","7","5",".","5">>, <<"m","a","s","s",":","h","e","a","v","y">>, <<"m","a","s","s",":","n","a","n">>, <<"m","a","s","s",":","i","n","f">>, <<"w","a","l","k"," ","m","p",":","x">>, <<"w","a","l","k"," ","m","p",":","3">>,
    <<"j","u","m","p"," ","m","p",":","+","2">>, <<"j","u","m","p"," ","m","p",":">>, <<"m","u","l"," ","i","d",":","1","4","0">>, <<"m","u","l"," ","i","d",":","x">> }

InitNumbers == InitAfter(<< <<"c","h","a","s","s","i","s",":","A","t","l","a","s">> >>, NumberLines, MaxLines)

SpecNumbers == InitNumbers /\ [][Next]_vars

\* SpecFields: a chassis line, key-value lines with and without a value,
\* a location header, a weapons header and a narrative-field header
FieldLines ==
  { <<"m","o","d","e","l",":">>, <<"m","o","d","e","l",":","A","S","7","-","D">>, <<"q","u","i","r","k",":">>, <<"q","u","i","r","k",":","s","t","a","b","l","e">>, <<"H","e","a","d",":">>, <<"W","e","a","p","o","n","s",":","1">>,
    <<"O","v","e","r","v","i","e","w",":","t","e","x","t">>, <<"\n">> }

InitFields == InitAfter(<< <<"c","h","a","s","s","i","s",":","A","t","l","a","s">> >>, FieldLines, MaxLines)

SpecFields == InitFields /\ [][Next]_vars

\* SpecSections: a chassis line, the headers of two locations, content
\* lines, weapons headers with and without a count, a header-shaped line
\* that names no location, a narrative-field header and a blank line
SectionLines ==
  { <<"H","e","a","d",":">>, <<"L","e","f","t"," ","A","r","m",":">>, <<"M","e","d","i","u","m"," ","L","a","s","e","r">>, <<"-","E","m","p","t","y","-">>, <<"W","e","a","p","o","n","s",":">>, <<"W","e","a","p","o","n","s",":","1">>,
    <<"F","o","o",":">>, <<"O","v","e","r","v","i","e","w",":","x">>, <<"\n">> }

InitSections == InitAfter(<< <<"c","h","a","s","s","i","s",":","A","t","l","a","s">> >>, SectionLines, MaxLines)

SpecSections == InitSections /\ [][Next]_vars

\* SpecMentions: a chassis line and a weapons header, then lines with one
\* comma, several commas and none, a key-value line, headers and a blank
\* line
MentionLines ==
  { <<"A","C","/","2","0",","," ","R","i","g","h","t"," ","A","r","m">>, <<"G","a","u","s","s"," ","R","i","f","l","e">>, <<"a",",","b",",","c">>, <<"m","o","d","e","l",":","A","S","7","-","D">>, <<"H","e","a","d",":">>,
    <<"W","e","a","p","o","n","s",":","2">>, <<"\n">> }

InitMentions == InitAfter(<< <<"c","h","a","s","s","i","s",":","A","t","l","a","s">>, <<"W","e","a","p","o","n","s",":","1">> >>, MentionLines, MaxLines)

SpecMentions == InitMentions /\ [][Next]_vars

\* SpecBlank: a chassis line, blank and comment lines, a location header
\* with a content line, a weapons header with a weapon line, a
\* narrative-field header and a scalar field
BlankLines ==
  { <<"\n">>, <<"#"," ","n","o","t","e">>, <<"H","e","a","d",":">>, <<"M","e","d","i","u","m"," ","L","a","s","e","r">>, <<"W","e","a","p","o","n","s",":","1">>, <<"A","C","/","2","0",","," ","R","i","g","h","t"," ","A","r","m">>,
    <<"O","v","e","r","v","i","e","w",":","t","e","x","t">>, <<"m","a","s","s",":","5","0">> }

InitBlank == InitAfter(<< <<"c","h","a","s","s","i","s",":","A","t","l","a","s">> >>, BlankLines, MaxLines)

SpecBlank == InitBlank /\ [][Next]_vars

\* SpecArmorOrder: a chassis line and armor lines for the left and center
\* torso: their front and rear codes, a location name used as a code, and
\* a second code the builder takes as a rear facing of the left torso
ArmorOrderLines ==
  { <<"L","T"," ","a","r","m","o","r",":","1","0">>, <<"R","T","L"," ","a","r","m","o","r",":","5">>, <<"L","E","F","T","_","R","E","A","R","_","T","O","R","S","O"," ","a","r","m","o","r",":","6">>, <<"L","E","F","T","_","T","O","R","S","O"," ","a","r","m","o","r",":","7">>,
    <<"C","T"," ","a","r","m","o","r",":","8">>, <<"R","T","C"," ","a","r","m","o","r",":","4">> }

InitArmorOrder == InitAfter(<< <<"c","h","a","s","s","i","s",":","A","t","l","a","s">> >>, ArmorOrderLines, MaxLines)

SpecArmorOrder == InitArmorOrder /\ [][Next]_vars

\* SpecBatch: one parser instance parses up to MaxFiles files that hold at
\* most MaxBatchLines lines together: a chassis line, a quirk, a location
\* header and a content line
BatchLines == { <<"c","h","a","s","s","i","s",":","A","t","l","a","s">>, <<"q","u","i","r","k",":","s","t","a","b","l","e">>, <<"H","e","a","d",":">>, <<"M","e","d","i","u","m"," ","L","a","s","e","r">> }

InitBatch == InitAfter(<<>>, BatchLines, MaxBatchLines)

SpecBatch == InitBatch /\ [][NextBatch]_vars

\* SpecOtherHeaders: a chassis line, then the header of a location, a
\* content line, header-shaped lines that name no location ('Foo:' and the
\* weapons header without a count), a weapons header with a count, a
\* narrative-field header and a blank line
OtherHeaderLines ==
  { <<"H","e","a","d",":">>, <<"M","e","d","i","u","m"," ","L","a","s","e","r">>, <<"F","o","o",":">>, <<"W","e","a","p","o","n","s",":">>, <<"W","e","a","p","o","n","s",":","1">>, <<"O","v","e","r","v","i","e","w",":","x">>, <<"\n">> }

InitOtherHeaders == InitAfter(<< <<"c","h","a","s","s","i","s",":","A","t","l","a","s">> >>, OtherHeaderLines, MaxLines)

SpecOtherHeaders == InitOtherHeaders /\ [][Next]_vars

\* SpecEmptySections: a chassis line, then the headers of two locations, a
\* content line, a weapons header, a header-shaped line that names no
\* location and a blank line
EmptySectionLines ==
  { <<"H","e","a","d",":">>, <<"L","e","f","t"," ","A","r","m",":">>, <<"M","e","d","i","u","m"," ","L","a","s","e","r">>, <<"W","e","a","p","o","n","s",":","1">>, <<"F","o","o",":">>, <<"\n">> }

InitEmptySections == InitAfter(<< <<"c","h","a","s","s","i","s",":","A","t","l","a","s">> >>, EmptySectionLines, MaxLines)

SpecEmptySections == InitEmptySections /\ [][Next]_vars

---------------------------------------------------------------------------
\* Properties

Done == pc = "done"
UnitBuilt == pc = "done" /\ result.returned = "unit"

\* The canonical capacity of a location of the critical-slot table: 6 for
\* the head and the legs, 12 for the others
CanonicalCapacity(location) ==
  IF location = <<"H","E","A","D">> \/ endswith(location, <<"_","L","E","G">>) THEN 6 ELSE 12

\* C1: every location of the unit's criticalSlots table holds exactly its
\* canonical capacity of slots (6 for HEAD and the legs, 12 otherwise),
\* however many content lines its section held.
C1_SlotCountIsCapacity ==
  UnitBuilt =>
    \A i \in 1..Len(result.criticalSlots) :
      Len(result.criticalSlots[i].v) = CanonicalCapacity(result.criticalSlots[i].k)

\* C1 witness: a unit whose Head section held 8 content lines
C1_Witness ==
  /\ UnitBuilt
  /\ Has(data.criticals, <<"H","e","a","d">>)
  /\ Len(Get(data.criticals, <<"H","e","a","d">>)) = 8
  /\ Len(Get(result.criticalSlots, <<"H","E","A","D">>)) = 6

\* The slot the reference normalisation puts at place i for the content
\* lines L: the line at place i, None for the empty-slot marker and for an
\* empty line, and None past the end of L
ReferenceSlot(L, i) ==
  IF i > Len(L) THEN None
  ELSE IF L[i] = <<"-","E","m","p","t","y","-">> \/ L[i] = <<>> THEN None
  ELSE L[i]

\* C5: the slot sequence emitted for a location with capacity c and content
\* lines L is the reference normalisation of L: c slots, the first
\* min(c, Len(L)) of them the lines of L in order with the empty-slot marker
\* turned into None, the others None.
C5_SlotsAreReferenceNormalisation ==
  UnitBuilt =>
    \A n \in 1..Len(data.criticals) :
      LET L == data.criticals[n].v
          location == map_mech_location(data.criticals[n].k)
          c == CanonicalCapacity(location)
      IN /\ Has(result.criticalSlots, location)
         /\ Len(Get(result.criticalSlots, location)) = c
         /\ \A i \in 1..c : Get(result.criticalSlots, location)[i] = ReferenceSlot(L, i)

\* C5 witness: a 12-slot location whose section held 3 content lines, the
\* marker among them: the 3 followed by 9 None
C5_Witness ==
  /\ UnitBuilt
  /\ Has(data.criticals, <<"L","e","f","t"," ","A","r","m">>)
  /\ Get(data.criticals, <<"L","e","f","t"," ","A","r","m">>) = << <<"M","e","d","i","u","m"," ","L","a","s","e","r">>, <<"-","E","m","p","t","y","-">>, <<"M","e","d","i","u","m"," ","L","a","s","e","r">> >>
  /\ Get(result.criticalSlots, <<"L","E","F","T","_","A","R","M">>) =
       << <<"M","e","d","i","u","m"," ","L","a","s","e","r">>, None, <<"M","e","d","i","u","m"," ","L","a","s","e","r">>,
          None, None, None, None, None, None, None, None, None >>

\* A line that is a key:value line of the key chassis, wherever it stands
IsChassisLine(line) ==
  /\ contains(strip(line), <<":">>)
  /\ KeyOf(strip(line)) = <<"c","h","a","s","s","i","s">>

\* C2: an input in which no line records a chassis value yields None: while
\* no line of the input is a chassis line data holds no chassis, and when
\* data holds no chassis at the end of the input the parse returns None,
\* whatever fields, sections, weapons and fluff the input holds.
C2_NoChassisNoUnit ==
  /\ (\A i \in 1..Len(lines) : ~IsChassisLine(lines[i])) => "chassis" \notin DOMAIN data
  /\ (Done /\ "chassis" \notin DOMAIN data) => result.returned = "None"

\* C2 witness: None is returned for an input that holds a manufacturer
\* field, a narrative field and a weapon, and a chassis line that the open
\* narrative field swallowed
C2_Witness ==
  /\ Done
  /\ result.returned = "None"
  /\ "chassis" \notin DOMAIN data
  /\ "manufacturer" \in DOMAIN data
  /\ data.fluff # <<>>
  /\ data.weapons # <<>>
  /\ \E i \in 1..Len(lines) : IsChassisLine(lines[i])

\* C10 as claimed: the unit carries a fluff block exactly when a narrative
\* field or manufacturer data (manufacturer, primary factory, a system
\* manufacturer) was captured.
C10_FluffIffNarrativeOrManufacturer ==
  UnitBuilt =>
    (("fluff" \in DOMAIN result) <=>
       \/ data.fluff # <<>>
       \/ "manufacturer" \in DOMAIN data
       \/ "primary_factory" \in DOMAIN data
       \/ data.system_manufacturers # <<>>)

\* The raw allocation map the builder was given, and its output
RawAllocation == data.armor_allocation
Allocation == result.armor.allocation

\* The places of the raw map whose code maps to the location name
EntriesFor(name) ==
  {i \in 1..Len(RawAllocation) : mapped_loc(RawAllocation[i].k) = name}

\* The front location a rear-facing name belongs to
FrontOf(name) == replace(name, <<"_","R","E","A","R">>, <<>>)

\* C3: a rear-facing entry of the raw map (a code whose mapped name holds
\* REAR) with no entry for its front location leaves no key in the output,
\* neither for the front location nor for the rear name; a rear value the
\* output holds is that of a rear entry whose front location has an entry;
\* and the builder raises nothing: the unit is built.
C3_OrphanRearIsDropped ==
  /\ (Done /\ "chassis" \in DOMAIN data) => result.returned = "unit"
  /\ UnitBuilt =>
       \A i \in 1..Len(RawAllocation) :
         LET name == mapped_loc(RawAllocation[i].k)
         IN (contains(name, <<"R","E","A","R">>) /\ EntriesFor(FrontOf(name)) = {}) =>
              /\ ~Has(Allocation, FrontOf(name))
              /\ ~Has(Allocation, name)
  /\ UnitBuilt =>
       \A n \in 1..Len(Allocation) :
         ~IsInt(Allocation[n].v) =>
           \E i \in 1..Len(RawAllocation) :
             /\ contains(mapped_loc(RawAllocation[i].k), <<"R","E","A","R">>)
             /\ FrontOf(mapped_loc(RawAllocation[i].k)) = Allocation[n].k
             /\ EntriesFor(Allocation[n].k) # {}
             /\ RawAllocation[i].v = Allocation[n].v.rear

\* C3 witness: RTC with no CT entry is dropped from a unit that merged RTL
\* into LT
C3_Witness ==
  /\ UnitBuilt
  /\ Has(RawAllocation, <<"R","T","C">>)
  /\ ~Has(RawAllocation, <<"C","T">>)
  /\ Has(RawAllocation, <<"L","T">>)
  /\ Has(RawAllocation, <<"R","T","L">>)
  /\ Keys(Allocation) = { <<"L","E","F","T","_","T","O","R","S","O">> }

Torsos == { <<"L","E","F","T","_","T","O","R","S","O">>, <<"R","I","G","H","T","_","T","O","R","S","O">>, <<"C","E","N","T","E","R","_","T","O","R","S","O">> }

\* The places of the raw map the builder takes as rear facings of the
\* location name: the mapped name holds REAR and names it without _REAR
RearEntriesFor(name) ==
  {i \in 1..Len(RawAllocation) :
     /\ contains(mapped_loc(RawAllocation[i].k), <<"R","E","A","R">>)
     /\ FrontOf(mapped_loc(RawAllocation[i].k)) = name}

\* C4: when the raw map holds the front entry and the rear entry of a torso
\* location (one of each), the output value of the location is the
\* composite of exactly the raw front value and the raw rear value,
\* whichever of the two entries comes first in the raw map.
C4_FrontAndRearAreMerged ==
  UnitBuilt =>
    \A T \in Torsos :
      (Cardinality(EntriesFor(T)) = 1 /\ Cardinality(RearEntriesFor(T)) = 1) =>
        LET f == CHOOSE i \in EntriesFor(T) : TRUE
            r == CHOOSE i \in RearEntriesFor(T) : TRUE
        IN /\ Has(Allocation, T)
           /\ Get(Allocation, T) =
                [front |-> RawAllocation[f].v, rear |-> RawAllocation[r].v]

\* C4 witness: the rear entry RTL comes before the front entry LT in the
\* raw map, and LEFT_TORSO is the composite of the two values
C4_Witness ==
  /\ UnitBuilt
  /\ Len(RawAllocation) >= 2
  /\ RawAllocation[1] = [k |-> <<"R","T","L">>, v |-> 5]
  /\ RawAllocation[2] = [k |-> <<"L","T">>, v |-> 10]
  /\ EntriesFor(<<"L","E","F","T","_","T","O","R","S","O">>) = {2}
  /\ RearEntriesFor(<<"L","E","F","T","_","T","O","R","S","O">>) = {1}
  /\ Get(Allocation, <<"L","E","F","T","_","T","O","R","S","O">>) = [front |-> 10, rear |-> 5]

\* A line that opens a narrative field, a line that is blank, and a line
\* an open narrative field takes as text
IsHeaderOfFluff(line) == IsFluffHeader(strip(line))
IsBlank(line) == strip(line) = <<>>
IsContinuation(line) ==
  /\ ~IsBlankOrComment(strip(line))
  /\ ~IsFluffHeader(strip(line))

\* The field a header line names and the text that follows the colon
HeaderField(line) == FluffField(strip(line))
HeaderRest(line) ==
  strip(SubSeq(strip(line), Len(HeaderField(line)) + 2, Len(strip(line))))

\* Line k of the input is a narrative-field header, the lines after it up
\* to line j are continuation lines, and line j is blank
ClosedAt(k, j) ==
  /\ k < j
  /\ IsHeaderOfFluff(lines[k])
  /\ \A m \in (k + 1)..(j - 1) : IsContinuation(lines[m])
  /\ IsBlank(lines[j])

\* The continuation lines between header k and blank line j, joined in
\* their order (after the text of the header line, when it has some)
JoinedText(k, j) ==
  join(<<"\n">>, (IF HeaderRest(lines[k]) = <<>> THEN <<>> ELSE << HeaderRest(lines[k]) >>)
              \o [m \in 1..(j - k - 1) |-> strip(lines[k + m])])

\* C6: when a narrative-field header is followed by continuation lines and
\* then a blank line, the text recorded for the field is those lines joined
\* in their order, the field is closed at the blank line, and no line after
\* the blank line is added to the text (until a later header of the same
\* field starts the text anew).
C6_FluffClosesAtBlankLine ==
  \A k, j \in 1..Len(lines) :
    ClosedAt(k, j) =>
      /\ (j = Len(lines) /\ pc = "scan") =>
           (~in_fluff /\ fluff_buffer = <<>> /\ current_fluff_field = None)
      /\ (\A m \in (j + 1)..Len(lines) :
            ~(IsHeaderOfFluff(lines[m]) /\ HeaderField(lines[m]) = HeaderField(lines[k]))) =>
           /\ Has(data.fluff, HeaderField(lines[k]))
           /\ Get(data.fluff, HeaderField(lines[k])) = JoinedText(k, j)

\* C6 witness: Overview, two continuation lines, a blank line and a further
\* text line have been read, and overview holds the two lines
C6_Witness ==
  /\ lines = << <<"O","v","e","r","v","i","e","w",":">>, <<"F","i","r","s","t"," ","l","i","n","e">>, <<"S","e","c","o","n","d"," ","l","i","n","e">>, <<"\n">>, <<"F","i","r","s","t"," ","l","i","n","e">> >>
  /\ Get(data.fluff, <<"o","v","e","r","v","i","e","w">>) = <<"F","i","r","s","t"," ","l","i","n","e","\n","S","e","c","o","n","d"," ","l","i","n","e">>
  /\ ~in_fluff

\* The name with the rear markers removed: (R), and (rear) in any case
RECURSIVE WithoutRearMarkers(_)
WithoutRearMarkers(name) ==
  IF contains(name, <<"(","R",")">>) THEN WithoutRearMarkers(replace(name, <<"(","R",")">>, <<>>))
  ELSE IF contains(lower(name), <<"(","r","e","a","r",")">>)
  THEN LET i == find(lower(name), <<"(","r","e","a","r",")">>)
       IN WithoutRearMarkers(SubSeq(name, 1, i - 1) \o SubSeq(name, i + 6, Len(name)))
  ELSE name

\* C7 as claimed: the equipment entry of a weapon carries the rear-mount
\* flag, true, exactly when the weapon name holds (R) or, in any letter
\* case, (rear); and its identifier is derived from the name with both
\* markers removed.
C7_RearFlagFollowsMarkers ==
  UnitBuilt =>
    \A i \in 1..Len(data.weapons) :
      LET name == data.weapons[i].name
          marked == contains(name, <<"(","R",")">>) \/ contains(lower(name), <<"(","r","e","a","r",")">>)
      IN /\ i <= Len(result.equipment)
         /\ ("isRearMounted" \in DOMAIN result.equipment[i]) <=> marked
         /\ marked => result.equipment[i].isRearMounted = TRUE
         /\ result.equipment[i].id = normalize_equipment_id(strip(WithoutRearMarkers(name)))

\* C8 as claimed: whenever the scanner is not in a fluff field, a line whose
\* trimmed text starts with weapons: in any case (the bare line Weapons:
\* too) saves the open location section into the critical-slot map and puts
\* the scanner in weapons mode, with no section open.
C8_WeaponsHeaderOpensWeaponsMode ==
  [][ (/\ pc = "scan" /\ pc' = "scan"
       /\ ~in_fluff
       /\ Len(lines') = Len(lines) + 1
       /\ startswith(lower(strip(lines'[Len(lines')])), <<"w","e","a","p","o","n","s",":">>))
      => (/\ in_weapons_section'
          /\ current_section' = None
          /\ current_section_items' = <<>>
          /\ data'.criticals =
               IF current_section # None /\ current_section_items # <<>>
               THEN Set(data.criticals, current_section, current_section_items)
               ELSE data.criticals) ]_vars

\* The weapon mention a line holds: the text before its first comma and the
\* text after it
Mention(line) ==
  [name |-> strip(split1(strip(line), <<",">>)[1]),
   location |-> strip(split1(strip(line), <<",">>)[2])]

\* ws is made of the mentions of some of the lines of ls from place i on,
\* in the order of those lines
RECURSIVE MentionsInOrder(_, _, _)
MentionsInOrder(ws, ls, i) ==
  IF ws = <<>> THEN TRUE
  ELSE IF i > Len(ls) THEN FALSE
  ELSE IF contains(strip(ls[i]), <<",">>) /\ Mention(ls[i]) = Head(ws)
          /\ MentionsInOrder(Tail(ws), ls, i + 1)
  THEN TRUE
  ELSE MentionsInOrder(ws, ls, i + 1)

\* C9: the unit's equipment list has one entry per weapon the scanner
\* recorded, entry i made from weapon i, and the weapons are the mentions
\* of input lines in the order of those lines: nothing is reordered,
\* duplicated or dropped.
C9_EquipmentKeepsWeaponOrder ==
  /\ MentionsInOrder(data.weapons, lines, 1)
  /\ UnitBuilt =>
       /\ Len(result.equipment) = Len(data.weapons)
       /\ \A i \in 1..Len(data.weapons) :
            /\ result.equipment[i].id = normalize_equipment_id(clean_name(data.weapons[i].name))
            /\ result.equipment[i].location = map_mech_location(data.weapons[i].location)

\* C9 witness: three different weapons were recorded and the unit lists
\* them in the order of their lines
C9_Witness ==
  /\ UnitBuilt
  /\ lines = << <<"c","h","a","s","s","i","s",":","A","t","l","a","s">>, <<"W","e","a","p","o","n","s",":","2">>, <<"A","C","/","2","0",","," ","R","i","g","h","t"," ","A","r","m">>,
                <<"M","e","d","i","u","m"," ","L","a","s","e","r","(","R",")",","," ","L","e","f","t"," ","A","r","m">>, <<"L","R","M"," ","2","0"," ","(","R","e","a","r",")",","," ","C","e","n","t","e","r"," ","T","o","r","s","o">> >>
  /\ Len(result.equipment) = 3
  /\ result.equipment[1].location = <<"R","I","G","H","T","_","A","R","M">>
  /\ result.equipment[2].location = <<"L","E","F","T","_","A","R","M">>
  /\ result.equipment[3].location = <<"C","E","N","T","E","R","_","T","O","R","S","O">>


---------------------------------------------------------------------------
\* C11: integer fields

\* The values, in input order, of the lines read whose key is key
RECURSIVE ValuesOf(_, _)
ValuesOf(key, ls) ==
  IF ls = <<>> THEN <<>>
  ELSE LET line_content == strip(ls[Len(ls)])
           rest == ValuesOf(key, SubSeq(ls, 1, Len(ls) - 1))
       IN IF contains(line_content, <<":">>) /\ KeyOf(line_content) = key
          THEN Append(rest, ValueOf(line_content))
          ELSE rest

\* The last value given for key fails to parse as an integer
LastFailsAsInt(key) ==
  /\ ValuesOf(key, lines) # <<>>
  /\ ~int(ValuesOf(key, lines)[Len(ValuesOf(key, lines))]).ok

\* The last value given for mass is no finite number
LastMassFails ==
  /\ ValuesOf(<<"m","a","s","s">>, lines) # <<>>
  /\ float(ValuesOf(<<"m","a","s","s">>, lines)[Len(ValuesOf(<<"m","a","s","s">>, lines))]).kind # "finite"

\* C11 as claimed: whatever value text the lines of mul_id, mass, walk_mp
\* and jump_mp carry (integers, decimals, text, inf, nan), a record with a
\* chassis is never turned into an absent result, a value that fails to
\* parse leaves mass, walk_mp and jump_mp at 0, and mul_id is omitted when
\* no mul_id value parses.
C11_NumericFieldsNeverFail ==
  (Done /\ "chassis" \in DOMAIN data /\ data.chassis # <<"U","n","k","n","o","w","n">>) =>
    /\ result.returned = "unit"
    /\ LastMassFails => result.tonnage = 0
    /\ LastFailsAsInt(<<"w","a","l","k","_","m","p">>) => result.movement.walk = 0
    /\ LastFailsAsInt(<<"j","u","m","p","_","m","p">>) => result.movement.jump = 0
    /\ (\A i \in 1..Len(ValuesOf(<<"m","u","l","_","i","d">>, lines)) : ~int(ValuesOf(<<"m","u","l","_","i","d">>, lines)[i]).ok)
         => "mulId" \notin DOMAIN result

---------------------------------------------------------------------------
\* C12: key-value lines

\* The trimmed text of a line is the header of a recognized location
IsLocationHeader(line) ==
  /\ IsSectionHeader(strip(line))
  /\ IsMechLocation(SubSeq(strip(line), 1, Len(strip(line)) - 1))

\* Outside fluff and weapons modes the line is one the claim sends to the
\* field interpreter: it holds a colon and is no header of any kind
IsKeyValueLine(line) ==
  /\ contains(strip(line), <<":">>)
  /\ ~IsFluffHeader(strip(line))
  /\ ~IsLocationHeader(line)
  /\ ~IsWeaponsHeader(strip(line))

\* C12 as claimed: outside fluff and weapons modes, every line that holds a
\* colon and is neither a recognized location header nor a weapons header
\* reaches the field interpreter, a line with an empty value too: a model
\* line records its value (the empty string for model:) and a quirk line
\* appends its value to quirks (the empty string for quirk:).
C12_ColonLinesAreKeyValue ==
  [][ (/\ pc = "scan" /\ pc' = "scan"
       /\ ~in_fluff /\ ~in_weapons_section
       /\ Len(lines') = Len(lines) + 1
       /\ IsKeyValueLine(lines'[Len(lines')]))
      => (/\ KeyOf(strip(lines'[Len(lines')])) = <<"m","o","d","e","l">> =>
               /\ "model" \in DOMAIN data'
               /\ data'.model = ValueOf(strip(lines'[Len(lines')]))
          /\ KeyOf(strip(lines'[Len(lines')])) = <<"q","u","i","r","k">> =>
               data'.quirks = Append(data.quirks, ValueOf(strip(lines'[Len(lines')]))) ) ]_vars

---------------------------------------------------------------------------
\* C13: the content lines of a location section

\* The sections of an input as the claim reads it: which location is open,
\* its content lines so far, and the map of the sections closed so far
Sections0 ==
  [open |-> None, items |-> <<>>, closed |-> <<>>, fluff |-> FALSE, weapons |-> FALSE]

\* The map with the open section, when it has content lines, recorded
SectionsClosed(r) ==
  IF r.open # None /\ r.items # <<>> THEN Set(r.closed, r.open, r.items) ELSE r.closed

\* One more line: a blank or comment line closes a narrative field; a
\* narrative-field header opens one and its body is not looked at; a
\* recognized location header opens that location; a weapons header closes
\* the open location; a line that holds no colon is content of the open
\* location
SectionsStep(r, line) ==
  LET line_content == strip(line)
  IN IF IsBlankOrComment(line_content) THEN [r EXCEPT !.fluff = FALSE]
     ELSE IF IsFluffHeader(line_content) THEN [r EXCEPT !.fluff = TRUE]
     ELSE IF r.fluff THEN r
     ELSE IF IsLocationHeader(line) THEN
       [r EXCEPT !.closed = SectionsClosed(r),
                 !.open = SubSeq(line_content, 1, Len(line_content) - 1),
                 !.items = <<>>,
                 !.weapons = FALSE]
     ELSE IF IsWeaponsHeader(line_content) THEN
       [r EXCEPT !.closed = SectionsClosed(r), !.open = None, !.items = <<>>,
                 !.weapons = TRUE]
     ELSE IF r.weapons \/ contains(line_content, <<":">>) \/ r.open = None THEN r
     ELSE [r EXCEPT !.items = Append(@, line_content)]

RECURSIVE SectionsOf(_)
SectionsOf(ls) ==
  IF ls = <<>> THEN Sections0
  ELSE SectionsStep(SectionsOf(SubSeq(ls, 1, Len(ls) - 1)), ls[Len(ls)])

\* C13 as claimed: the content lines that follow a recognized location
\* header, up to the next recognized location header, weapons header or
\* end of input, are recorded under that location in input order, and the
\* location's slot sequence in the unit is that list after empty-marker
\* conversion and length normalisation.
C13_SectionKeepsContentLines ==
  UnitBuilt =>
    LET expected == SectionsClosed(SectionsOf(lines))
    IN /\ Keys(data.criticals) = Keys(expected)
       /\ \A location \in Keys(expected) :
            /\ Get(data.criticals, location) = Get(expected, location)
            /\ Get(result.criticalSlots, map_mech_location(location)) =
                 NormalizeSlots(ConvertItems(Get(expected, location)),
                                max_slots(map_mech_location(location)))

---------------------------------------------------------------------------
\* C14: lines in weapons mode

\* The weapon name of a line: the text before its first comma, the whole
\* line when it holds no comma
NameOf(line) ==
  IF contains(strip(line), <<",">>) THEN strip(split1(strip(line), <<",">>)[1])
  ELSE strip(line)

\* C14 as claimed: in weapons mode every line that is no blank or comment
\* line and no fluff, location or weapons header appends exactly one entry
\* to the weapons list, named by the text before its first comma, and the
\* scanner stays in weapons mode; a line that holds no comma too.
C14_WeaponsModeAppendsEveryLine ==
  [][ (/\ pc = "scan" /\ pc' = "scan"
       /\ in_weapons_section /\ ~in_fluff
       /\ Len(lines') = Len(lines) + 1
       /\ ~IsBlankOrComment(strip(lines'[Len(lines')]))
       /\ ~IsFluffHeader(strip(lines'[Len(lines')]))
       /\ ~IsLocationHeader(lines'[Len(lines')])
       /\ ~IsWeaponsHeader(strip(lines'[Len(lines')])))
      => (/\ in_weapons_section'
          /\ Len(data'.weapons) = Len(data.weapons) + 1
          /\ SubSeq(data'.weapons, 1, Len(data.weapons)) = data.weapons
          /\ data'.weapons[Len(data'.weapons)].name = NameOf(lines'[Len(lines')])) ]_vars

---------------------------------------------------------------------------
\* C15: blank and comment lines

\* C15: a blank line or a comment line leaves the open location section,
\* its accumulated lines, weapons mode, the weapons list and every field of
\* the record other than the narrative map as they are; when a narrative
\* field is open the line stores the field's text and closes the field,
\* and otherwise it changes nothing at all.
C15_BlankLineOnlyClosesFluff ==
  [][ (/\ pc = "scan" /\ pc' = "scan"
       /\ Len(lines') = Len(lines) + 1
       /\ IsBlankOrComment(strip(lines'[Len(lines')])))
      => (/\ current_section' = current_section
          /\ current_section_items' = current_section_items
          /\ in_weapons_section' = in_weapons_section
          /\ DOMAIN data' = DOMAIN data
          /\ \A field \in DOMAIN data \ {"fluff"} : data'[field] = data[field]
          /\ ~in_fluff'
          /\ IF in_fluff
             THEN /\ Keys(data'.fluff) = Keys(data.fluff) \cup {current_fluff_field}
                  /\ Get(data'.fluff, current_fluff_field) = strip(join(<<"\n">>, fluff_buffer))
                  /\ \A f \in Keys(data.fluff) \ {current_fluff_field} :
                       Get(data'.fluff, f) = Get(data.fluff, f)
             ELSE data'.fluff = data.fluff) ]_vars

\* C15 witness: a comment line read inside an open location section and
\* an open narrative field has closed the field and stored its text, and
\* the section is still open with its content line
C15_Witness ==
  /\ lines = << <<"c","h","a","s","s","i","s",":","A","t","l","a","s">>, <<"H","e","a","d",":">>, <<"M","e","d","i","u","m"," ","L","a","s","e","r">>, <<"O","v","e","r","v","i","e","w",":","t","e","x","t">>, <<"#"," ","n","o","t","e">> >>
  /\ current_section = <<"H","e","a","d">>
  /\ current_section_items = << <<"M","e","d","i","u","m"," ","L","a","s","e","r">> >>
  /\ ~in_fluff
  /\ Get(data.fluff, <<"o","v","e","r","v","i","e","w">>) = <<"t","e","x","t">>

---------------------------------------------------------------------------
\* C16: the end of the input

\* C16: when the input ends, the lines accumulated for the open location
\* section are in the critical-slot map under that location and the text
\* accumulated for the open narrative field is in the narrative map under
\* that field; the record is the one a blank line and then a weapons
\* header would have left, and the unit is built from it.
C16_EndOfInputFlushes ==
  [][ (pc = "scan" /\ pc' = "done" /\ lines' = lines)
      => (/\ (current_section # None /\ current_section_items # <<>>) =>
                /\ Has(data'.criticals, current_section)
                /\ Get(data'.criticals, current_section) = current_section_items
          /\ in_fluff =>
                /\ Has(data'.fluff, current_fluff_field)
                /\ Get(data'.fluff, current_fluff_field) = strip(join(<<"\n">>, fluff_buffer))
          /\ data' = scan_line(scan_line(Locals, <<"\n">>).locals, <<"W","e","a","p","o","n","s",":","1">>).locals.data
          /\ result'.returned = "unit" =>
                /\ result'.criticalSlots = _build_critical_slots(data'.criticals)
                /\ in_fluff => result'.fluff.overview = Get(data'.fluff, <<"o","v","e","r","v","i","e","w">>)) ]_vars

\* C16 witness: the input ended inside the Head section and inside the
\* overview field, and the unit holds the section's line and the field's
\* two lines of text
C16_Witness ==
  /\ Done
  /\ lines = << <<"c","h","a","s","s","i","s",":","A","t","l","a","s">>, <<"H","e","a","d",":">>, <<"M","e","d","i","u","m"," ","L","a","s","e","r">>, <<"O","v","e","r","v","i","e","w",":","t","e","x","t">>, <<"M","e","d","i","u","m"," ","L","a","s","e","r">> >>
  /\ current_section = <<"H","e","a","d">> /\ in_fluff
  /\ result.returned = "unit"
  /\ Get(result.criticalSlots, <<"H","E","A","D">>)[1] = <<"M","e","d","i","u","m"," ","L","a","s","e","r">>
  /\ result.fluff.overview = <<"t","e","x","t","\n","M","e","d","i","u","m"," ","L","a","s","e","r">>

---------------------------------------------------------------------------
\* C17: the body of a narrative field

\* C17: while a narrative field is open, a line that is not blank, no
\* comment and no narrative-field header is appended to the fluff buffer
\* and changes nothing else: a location header, a weapons header, a weapon
\* line or a key-value line read there opens no section, adds no weapon
\* and sets no field.
C17_FluffBodyIsNotScanned ==
  [][ (/\ pc = "scan" /\ pc' = "scan"
       /\ in_fluff
       /\ Len(lines') = Len(lines) + 1
       /\ ~IsBlankOrComment(strip(lines'[Len(lines')]))
       /\ ~IsFluffHeader(strip(lines'[Len(lines')])))
      => (/\ fluff_buffer' = Append(fluff_buffer, strip(lines'[Len(lines')]))
          /\ in_fluff' /\ current_fluff_field' = current_fluff_field
          /\ data' = data
          /\ current_section' = current_section
          /\ current_section_items' = current_section_items
          /\ in_weapons_section' = in_weapons_section) ]_vars

\* C17 witness: a location header, a weapons header, a weapon line and a
\* key-value line were read inside the overview field: all four are in the
\* buffer, and no section is open, no weapon recorded and no mass set
C17_Witness ==
  /\ lines = << <<"c","h","a","s","s","i","s",":","A","t","l","a","s">>, <<"O","v","e","r","v","i","e","w",":","t","e","x","t">>, <<"H","e","a","d",":">>, <<"W","e","a","p","o","n","s",":","1">>,
                <<"A","C","/","2","0",","," ","R","i","g","h","t"," ","A","r","m">>, <<"m","a","s","s",":","5","0">> >>
  /\ fluff_buffer = << <<"t","e","x","t">>, <<"H","e","a","d",":">>, <<"W","e","a","p","o","n","s",":","1">>, <<"A","C","/","2","0",","," ","R","i","g","h","t"," ","A","r","m">>, <<"m","a","s","s",":","5","0">> >>
  /\ current_section = None /\ ~in_weapons_section
  /\ data.weapons = <<>> /\ "mass" \notin DOMAIN data

---------------------------------------------------------------------------
\* C18: the order of the raw allocation map

\* The codes of the raw map go to pairwise distinct location names
DistinctNames(raw_allocation) ==
  \A i, j \in 1..Len(raw_allocation) :
    i # j => mapped_loc(raw_allocation[i].k) # mapped_loc(raw_allocation[j].k)

\* The raw map with its entries in the order p
Permuted(raw_allocation, p) == [i \in 1..Len(raw_allocation) |-> raw_allocation[p[i]]]

\* Two dicts hold the same keys with the same values
SameMap(a, b) == Keys(a) = Keys(b) /\ \A key \in Keys(a) : Get(a, key) = Get(b, key)

\* C18 as claimed: for a raw map whose codes go to pairwise distinct
\* location names, the builder's output is the same map for every order of
\* the entries.
C18_ArmorOrderIndependent ==
  DistinctNames(data.armor_allocation) =>
    \A p \in Permutations(1..Len(data.armor_allocation)) :
      SameMap(_build_armor_allocation(Permuted(data.armor_allocation, p)),
              _build_armor_allocation(data.armor_allocation))

---------------------------------------------------------------------------
\* C19: one parser instance, several files

\* C19: when one parser instance parses several files in sequence, the
\* result for each file is the result a new parser returns for that file
\* alone, whatever files came before it, and the instance holds nothing
\* of the files it parsed.
C19_ParsesShareNoState ==
  /\ Done => result = ParseFresh(lines)
  /\ \A i \in 1..Len(parsed) : parsed[i].result = ParseFresh(parsed[i].lines)
  /\ unknown_equipment = {}

\* C19 witness: after a file with a chassis and a quirk, the same parser
\* returned no unit for a file without a chassis line and a unit without
\* quirks for a file with only a chassis line
C19_Witness ==
  /\ Done
  /\ Len(parsed) = 2
  /\ parsed[1].lines = << <<"c","h","a","s","s","i","s",":","A","t","l","a","s">>, <<"q","u","i","r","k",":","s","t","a","b","l","e">> >>
  /\ parsed[1].result.quirks = << <<"s","t","a","b","l","e">> >>
  /\ parsed[1].result.returned = "unit"
  /\ parsed[2].lines = <<>>
  /\ parsed[2].result.returned = "None"
  /\ lines = << <<"c","h","a","s","s","i","s",":","A","t","l","a","s">> >>
  /\ result.returned = "unit"
  /\ "quirks" \notin DOMAIN result

---------------------------------------------------------------------------
\* C20: weapons mode and location sections

\* C20: the scanner is never in weapons mode and inside a location section
\* at once: in weapons mode no section is open and the section buffer is
\* empty, and with a section open the scanner is not in weapons mode.
C20_WeaponsModeExcludesSection ==
  in_weapons_section => (current_section = None /\ current_section_items = <<>>)

\* C20 witness: the scanner went from weapons mode into the Head section,
\* read a content line there, and from the section back into weapons mode,
\* which saved the section and left none open
C20_Witness ==
  /\ lines = << <<"c","h","a","s","s","i","s",":","A","t","l","a","s">>, <<"W","e","a","p","o","n","s",":","1">>, <<"H","e","a","d",":">>, <<"M","e","d","i","u","m"," ","L","a","s","e","r">>, <<"W","e","a","p","o","n","s",":","1">> >>
  /\ in_weapons_section
  /\ current_section = None
  /\ Get(data.criticals, <<"H","e","a","d">>) = << <<"M","e","d","i","u","m"," ","L","a","s","e","r">> >>

---------------------------------------------------------------------------
\* C21: the shape of the armor allocation

\* The largest and the smallest place of a non-empty set of places
LastOf(S) == CHOOSE i \in S : \A j \in S : j <= i
FirstOf(S) == CHOOSE i \in S : \A j \in S : i <= j

\* C21: no key of the armor allocation holds REAR; every value is a single
\* integer (the value of the location's front entry, and then no rear
\* entry aims at the location) or a composite of exactly front and rear;
\* and a composite is made once: its rear is the value of the first rear
\* entry that aims at the location, which no further rear entry replaces
\* or nests.
C21_AllocationShape ==
  UnitBuilt =>
    \A n \in 1..Len(Allocation) :
      LET name == Allocation[n].k
          value == Allocation[n].v
      IN /\ ~contains(name, <<"R","E","A","R">>)
         /\ EntriesFor(name) # {}
         /\ DOMAIN value \in {{"int"}, {"front", "rear"}}
         /\ IsInt(value) =>
              /\ RearEntriesFor(name) = {}
              /\ value.int = RawAllocation[LastOf(EntriesFor(name))].v
         /\ ~IsInt(value) =>
              /\ RearEntriesFor(name) # {}
              /\ value.front = RawAllocation[LastOf(EntriesFor(name))].v
              /\ value.rear = RawAllocation[FirstOf(RearEntriesFor(name))].v

\* C21 witness: two rear entries aim at the left torso after its front
\* entry; the output holds the one key LEFT_TORSO, a composite with the
\* rear value of the first of the two
C21_Witness ==
  /\ UnitBuilt
  /\ RawAllocation = << [k |-> <<"L","T">>, v |-> 10], [k |-> <<"R","T","L">>, v |-> 5],
                        [k |-> <<"L","E","F","T","_","R","E","A","R","_","T","O","R","S","O">>, v |-> 6] >>
  /\ Allocation = << [k |-> <<"L","E","F","T","_","T","O","R","S","O">>, v |-> [front |-> 10, rear |-> 5]] >>

---------------------------------------------------------------------------
\* C22: a narrative field inside a section or inside weapons mode

\* The lines of an input without its narrative fields: without the field
\* headers, the lines of their bodies, and the blank and comment lines
RECURSIVE WithoutFluff(_, _)
WithoutFluff(ls, open) ==
  IF ls = <<>> THEN <<>>
  ELSE LET line_content == strip(Head(ls))
       IN IF IsBlankOrComment(line_content) THEN WithoutFluff(Tail(ls), FALSE)
          ELSE IF IsFluffHeader(line_content) THEN WithoutFluff(Tail(ls), TRUE)
          ELSE IF open THEN WithoutFluff(Tail(ls), TRUE)
          ELSE << Head(ls) >> \o WithoutFluff(Tail(ls), FALSE)

\* C22: a narrative field that is opened and closed inside a location
\* section or inside weapons mode leaves that mode as it was: the open
\* section, its accumulated lines, weapons mode, the critical-slot map and
\* the weapons list are at every point those of the same input without its
\* narrative fields, so the lines after the field go where they would have
\* gone without it.
C22_FluffLeavesModeAlone ==
  LET s == ScanAll(WithoutFluff(lines, FALSE))
  IN /\ pc = "scan" =>
          /\ current_section = s.current_section
          /\ current_section_items = s.current_section_items
          /\ in_weapons_section = s.in_weapons_section
          /\ data.criticals = s.data.criticals
          /\ data.weapons = s.data.weapons
     /\ UnitBuilt =>
          /\ result.criticalSlots = _build_critical_slots(FinalData(s).criticals)
          /\ result.equipment = _build_equipment_list(FinalData(s).weapons)

\* C22 witness: the overview field was opened inside the Head section and
\* closed by a blank line, and the content line after it joined the line
\* the section held before the field
C22_Witness ==
  /\ lines = << <<"c","h","a","s","s","i","s",":","A","t","l","a","s">>, <<"H","e","a","d",":">>, <<"M","e","d","i","u","m"," ","L","a","s","e","r">>, <<"O","v","e","r","v","i","e","w",":","t","e","x","t">>, <<"\n">>,
                <<"M","e","d","i","u","m"," ","L","a","s","e","r">> >>
  /\ pc = "scan"
  /\ ~in_fluff
  /\ current_section = <<"H","e","a","d">>
  /\ current_section_items = << <<"M","e","d","i","u","m"," ","L","a","s","e","r">>, <<"M","e","d","i","u","m"," ","L","a","s","e","r">> >>

---------------------------------------------------------------------------
\* C23: header-shaped lines that name no location

\* line_content reaches the section header test outside a narrative field
\* and names none of the recognized locations
IsOtherHeader(line_content) ==
  /\ ~IsBlankOrComment(line_content)
  /\ ~IsFluffHeader(line_content)
  /\ IsSectionHeader(line_content)
  /\ ~IsMechLocation(SubSeq(line_content, 1, Len(line_content) - 1))

\* The lines of an input without the header-shaped lines that name no
\* location; open tells whether a narrative field is open, whose body lines
\* are kept whatever their shape
RECURSIVE WithoutOtherHeaders(_, _)
WithoutOtherHeaders(ls, open) ==
  IF ls = <<>> THEN <<>>
  ELSE LET line_content == strip(Head(ls))
       IN IF IsBlankOrComment(line_content)
          THEN << Head(ls) >> \o WithoutOtherHeaders(Tail(ls), FALSE)
          ELSE IF IsFluffHeader(line_content) \/ open
          THEN << Head(ls) >> \o WithoutOtherHeaders(Tail(ls), TRUE)
          ELSE IF IsOtherHeader(line_content)
          THEN WithoutOtherHeaders(Tail(ls), FALSE)
          ELSE << Head(ls) >> \o WithoutOtherHeaders(Tail(ls), FALSE)

\* C23: a header-shaped line whose name is not a recognized location opens
\* no section and closes none: the open section, its accumulated lines and
\* weapons mode are at every point those of the same input without such
\* lines, the critical-slot map and the weapons list agree once the open
\* section is stored, and the parse returns what it returns without them.
C23_OtherHeaderChangesNothing ==
  LET s == ScanAll(WithoutOtherHeaders(lines, FALSE))
  IN /\ pc = "scan" =>
          /\ current_section = s.current_section
          /\ current_section_items = s.current_section_items
          /\ in_weapons_section = s.in_weapons_section
          /\ data.weapons = s.data.weapons
          /\ SaveSection(Locals).criticals = SaveSection(s).criticals
     /\ pc = "done" => result = ParseFresh(WithoutOtherHeaders(lines, FALSE))

\* C23 witness: the content line after 'Foo:' joined the line the Head
\* section held before it, in the section and in the stored entry
C23_Witness ==
  /\ lines = << <<"c","h","a","s","s","i","s",":","A","t","l","a","s">>, <<"H","e","a","d",":">>, <<"M","e","d","i","u","m"," ","L","a","s","e","r">>, <<"F","o","o",":">>, <<"M","e","d","i","u","m"," ","L","a","s","e","r">> >>
  /\ pc = "scan"
  /\ current_section = <<"H","e","a","d">>
  /\ current_section_items = << <<"M","e","d","i","u","m"," ","L","a","s","e","r">>, <<"M","e","d","i","u","m"," ","L","a","s","e","r">> >>
  /\ Get(data.criticals, <<"H","e","a","d">>) = << <<"M","e","d","i","u","m"," ","L","a","s","e","r">>, <<"M","e","d","i","u","m"," ","L","a","s","e","r">> >>

\* C23 witness in weapons mode: 'Foo:' after the weapons header left
\* weapons mode active
C23_WitnessWeapons ==
  /\ lines = << <<"c","h","a","s","s","i","s",":","A","t","l","a","s">>, <<"W","e","a","p","o","n","s",":","1">>, <<"F","o","o",":">> >>
  /\ pc = "scan"
  /\ in_weapons_section

---------------------------------------------------------------------------
\* C24: location sections without content lines

\* The local variables after the first j lines of the input
AfterLine(j) == ScanAll(SubSeq(lines, 1, j))

\* The points of the input at which a location section is open and holds
\* at least one content line
Filled ==
  { j \in 1..Len(lines) :
      /\ AfterLine(j).current_section \notin {None, <<>>}
      /\ AfterLine(j).current_section_items # <<>> }

\* The last point at which the section of location name held content lines
LastFilled(name) == LastOf({ j \in Filled : AfterLine(j).current_section = name })

\* C24: a location section without content lines makes no entry and erases
\* none: once the open section is stored, the critical-slot map holds
\* exactly the locations whose section held a content line at some point,
\* each with the lines of the last such section, and the critical-slot
\* table of the unit is built from exactly these entries.
C24_EmptySectionStoresNothing ==
  LET criticals == IF current_section \notin {None, <<>>} /\ current_section_items # <<>>
                   THEN Set(data.criticals, current_section, current_section_items)
                   ELSE data.criticals
      names == { AfterLine(j).current_section : j \in Filled }
  IN /\ Keys(criticals) = names
     /\ \A name \in names :
          Get(criticals, name) = AfterLine(LastFilled(name)).current_section_items
     /\ UnitBuilt =>
          /\ Keys(result.criticalSlots) = { map_mech_location(name) : name \in names }
          /\ \A name \in names :
               Get(result.criticalSlots, map_mech_location(name))
                 = NormalizeSlots(ConvertItems(AfterLine(LastFilled(name)).current_section_items),
                                  max_slots(map_mech_location(name)))

\* C24 witness: the Left Arm section was closed by the next header and the
\* second Head section by the end of input, both without content lines;
\* the table holds the first Head section's line and no left arm
C24_Witness ==
  /\ lines = << <<"c","h","a","s","s","i","s",":","A","t","l","a","s">>, <<"H","e","a","d",":">>, <<"M","e","d","i","u","m"," ","L","a","s","e","r">>, <<"L","e","f","t"," ","A","r","m",":">>, <<"H","e","a","d",":">> >>
  /\ UnitBuilt
  /\ current_section = <<"H","e","a","d">>
  /\ current_section_items = <<>>
  /\ data.criticals = << [k |-> <<"H","e","a","d">>, v |-> << <<"M","e","d","i","u","m"," ","L","a","s","e","r">> >>] >>
  /\ Keys(result.criticalSlots) = { <<"H","E","A","D">> }
====
